---- MODULE Spec2Model ----
(***************************************************************************)
(* A model of the limit order book of low_latency_oms (src/src/main.rs):   *)
(* the in-memory OrderBook (two VecDeque<Order>), the three HTTP handlers  *)
(* that mutate it under the book mutex, the atomic id counter, and the     *)
(* SQLite table written by spawn_blocking tasks.                           *)
(*                                                                         *)
(* Granularity.  A handler's critical section (book mutex held) is one     *)
(* atomic action.  The id allocation and Order::new of create_order_handler*)
(* happen before the mutex is taken and form an action of their own, so    *)
(* concurrent creations can reach the book in an order different from the  *)
(* order of their ids.  Every spawn_blocking closure is one atomic action  *)
(* (it runs under the connection mutex); pending closures run in any order.*)
(* A handler that awaits its closure answers when that closure has run.    *)
(***************************************************************************)
EXTENDS Integers, Sequences, FiniteSets, Bags, TLC

\* ---------------------------------------------------------------- bounds
MaxOrders == 3      \* ids handed out by the counter in one run
MaxPrice == 2       \* prices are drawn from 1..MaxPrice
MaxQty == 2         \* quantities are drawn from 0..MaxQty
MaxInflight == 2    \* creations between id allocation and the book lock
MaxTasks == 1       \* a handler starts only with fewer pending closures
MaxRestarts == 1      \* starts of the process after the first
MaxRequests == 2    \* modify and cancel requests that found their order

Sides == {"Buy", "Sell"}
\* The code reads a price only to compare it with another price (line 123),
\* so the prices 1..MaxPrice stand for any MaxPrice distinct u64 values, 0
\* included.  A quantity of 0 behaves differently from the others (lines
\* 134-141, 165, 169, 182) and is drawn too: CreateOrderPayload is any u64.
Prices == 1..MaxPrice
Quantities == 0..MaxQty
OrderIds == 1..MaxOrders

\* OrderStatus; format!("{:?}", status) writes the variant's name, so the
\* variant names are used for the enum and for the text column alike.
Open == "Open"
PartiallyFilled == "PartiallyFilled"
Filled == "Filled"
Cancelled == "Cancelled"

None == [none |-> TRUE]

\* the book Mutex with no create handler inside its critical section
NoHolder == [pc |-> "free"]

VARIABLES
  bids,            \* OrderBook.bids : VecDeque<Order>, front first
  asks,            \* OrderBook.asks : VecDeque<Order>, front first
  next_order_id,   \* AppState.next_order_id : AtomicU64
  now,             \* the clock read by Order::new
  inflight,        \* orders built by create_order_handler, not yet in the book
  tasks,           \* bag of spawn_blocking closures that have not run yet
  db,              \* table orders: id -> row
  original,        \* history: id -> quantity the order was submitted with
  requests,        \* history: modify and cancel requests that found their order
  restarts,        \* history: times the process has been started again
  holder           \* the create handler inside the book lock's critical section,
                   \* with the book it found and its count of loop iterations

vars == <<bids, asks, next_order_id, now, inflight, tasks, db, original, requests,
          restarts, holder>>

\* ------------------------------------------------------------- sequences
\* position(..).unwrap_or(0): the front is taken when no order has the id
position_or_first(q, id, i) ==
  IF \E k \in i..Len(q) : q[k].id = id
  THEN CHOOSE k \in i..Len(q) : q[k].id = id /\ \A j \in i..(k - 1) : q[j].id # id
  ELSE IF q = <<>> THEN 0 ELSE 1

RECURSIVE position(_, _, _)
\* iter().position(|o| o.id == id): first index (1-based) from i on, 0 if none
position(q, id, i) ==
  IF i > Len(q) THEN 0
  ELSE IF q[i].id = id THEN i
  ELSE position(q, id, i + 1)

\* VecDeque::swap_remove_back(index) in place of remove(index): the last
\* element takes the place of the one dropped
swap_remove_back(q, i) ==
  IF i = Len(q) THEN SubSeq(q, 1, Len(q) - 1)
  ELSE [k \in 1..(Len(q) - 1) |-> IF k = i THEN q[Len(q)] ELSE q[k]]

\* VecDeque::remove(index): drops the element, the others keep their order
remove(q, i) == SubSeq(q, 1, i - 1) \o SubSeq(q, i + 1, Len(q))

\* VecDeque::push_front in place of push_back
push_front(q, o) == <<o>> \o q

\* VecDeque::push_back
push_back(q, o) == Append(q, o)

Min(x, y) == IF x <= y THEN x ELSE y

Ids(q) == {q[i].id : i \in 1..Len(q)}

\* the first order of q whose id is id
Resting_in(q, id) == q[position(q, id, 1)]

\* ------------------------------------------------------------ Order::new
Order_new(id, side, price, quantity, timestamp) ==
  [id |-> id, side |-> side, price |-> price, quantity |-> quantity,
   timestamp |-> timestamp, status |-> Open]

\* ------------------------------------------------------------- OrderBook
\* a trade that leaves a remainder keeps the order's status Open
status_after_match_open(quantity) == IF quantity = 0 THEN Filled ELSE Open

\* status after a trade (lines 140-141)
status_after_match(quantity) == IF quantity = 0 THEN Filled ELSE PartiallyFilled

\* the closure try_match hands to spawn_blocking for one trade (lines 143-163)
match_task(bid, ask) ==
  [kind |-> "match",
   bid_id |-> bid.id, bid_remaining_qty |-> bid.quantity, bid_status |-> bid.status,
   ask_id |-> ask.id, ask_remaining_qty |-> ask.quantity, ask_status |-> ask.status]

\* the loop body with the two pop_front left out
match_heads_no_pop(b, a) ==
  LET best_bid == Head(b)
      best_ask == Head(a)
      matched_quantity == Min(best_bid.quantity, best_ask.quantity)
      bid_qty == best_bid.quantity - matched_quantity
      ask_qty == best_ask.quantity - matched_quantity
      new_bid == [best_bid EXCEPT !.quantity = bid_qty,
                                  !.status = status_after_match(bid_qty)]
      new_ask == [best_ask EXCEPT !.quantity = ask_qty,
                                  !.status = status_after_match(ask_qty)]
  IN [bids |-> <<new_bid>> \o Tail(b),
      asks |-> <<new_ask>> \o Tail(a),
      spawned |-> match_task(new_bid, new_ask)]

\* one pass of the loop body for crossing heads (lines 127-172): the two heads
\* after the trade, and the indexes with every exhausted head popped
match_heads(b, a) ==
  LET best_bid == Head(b)
      best_ask == Head(a)
      matched_quantity == Min(best_bid.quantity, best_ask.quantity)
      bid_qty == best_bid.quantity - matched_quantity
      ask_qty == best_ask.quantity - matched_quantity
      new_bid == [best_bid EXCEPT !.quantity = bid_qty,
                                  !.status = status_after_match(bid_qty)]
      new_ask == [best_ask EXCEPT !.quantity = ask_qty,
                                  !.status = status_after_match(ask_qty)]
  IN [bids |-> IF new_bid.quantity = 0 THEN Tail(b) ELSE <<new_bid>> \o Tail(b),
      asks |-> IF new_ask.quantity = 0 THEN Tail(a) ELSE <<new_ask>> \o Tail(a),
      spawned |-> match_task(new_bid, new_ask)]

\* what try_match reports of a trade before it mutates the heads (lines
\* 130-135): the two ids, the price (the best ask's) and the quantity
match_found(b, a) ==
  [bid_id |-> Head(b).id, ask_id |-> Head(a).id, price |-> Head(a).price,
   quantity |-> Min(Head(b).quantity, Head(a).quantity)]

\* the loop condition and can_match (lines 118-124)
can_match(b, a) ==
  /\ b # <<>>
  /\ a # <<>>
  /\ Head(b).price >= Head(a).price

RECURSIVE try_match(_, _, _)
\* OrderBook::try_match: the book after the loop and the closures it spawned,
\* in spawn order
try_match(b, a, spawned) ==
  IF can_match(b, a)
  THEN LET m == match_heads(b, a)
       IN try_match(m.bids, m.asks, Append(spawned, m.spawned))
  ELSE [bids |-> b, asks |-> a, spawned |-> spawned]

RECURSIVE match_log(_, _, _)
\* the trades try_match reports, in order, when run on indexes b and a
match_log(b, a, log) ==
  IF can_match(b, a)
  THEN LET m == match_heads(b, a)
       IN match_log(m.bids, m.asks, Append(log, match_found(b, a)))
  ELSE log

\* OrderBook::add_order: push_back on the order's side, then try_match
add_order(b, a, order) ==
  IF order.side = "Buy"
  THEN try_match(push_back(b, order), a, <<>>)
  ELSE try_match(b, push_back(a, order), <<>>)

\* the status modify_order leaves on the order it found (lines 191-195)
status_after_modify(status) ==
  IF status = Filled THEN Open
  ELSE IF status # PartiallyFilled THEN Open
  ELSE status

\* cancel_order marking the order Cancelled where it stands, without
\* removing it from its index
cancel_order_in_place(b, a, id) ==
  LET bi == position(b, id, 1)
      ai == position(a, id, 1)
  IN IF bi # 0
     THEN [bids |-> [b EXCEPT ![bi].status = Cancelled], asks |-> a,
           result |-> [b[bi] EXCEPT !.status = Cancelled]]
     ELSE IF ai # 0
     THEN [bids |-> b, asks |-> [a EXCEPT ![ai].status = Cancelled],
           result |-> [a[ai] EXCEPT !.status = Cancelled]]
     ELSE [bids |-> b, asks |-> a, result |-> None]

\* OrderBook::cancel_order: the book and Option<Order>
cancel_order(b, a, id) ==
  LET bi == position(b, id, 1)
      ai == position(a, id, 1)
  IN IF bi # 0
     THEN [bids |-> remove(b, bi), asks |-> a,
           result |-> [b[bi] EXCEPT !.status = Cancelled]]
     ELSE IF ai # 0
     THEN [bids |-> b, asks |-> remove(a, ai),
           result |-> [a[ai] EXCEPT !.status = Cancelled]]
     ELSE [bids |-> b, asks |-> a, result |-> None]

\* the order modify_order writes back in place (lines 188-195)
modified(order, new_quantity) ==
  [order EXCEPT !.quantity = new_quantity,
                !.status = status_after_modify(order.status)]

\* modify_order as a cancel followed by add_order of the order with its new
\* quantity: the order goes to the back of its index and matching runs again
modify_order_readd(b, a, id, new_quantity) ==
  LET c == cancel_order(b, a, id)
      order == IF c.result = None THEN None
               ELSE modified(Resting_in(b \o a, id), new_quantity)
      m == IF c.result = None THEN [bids |-> b, asks |-> a]
           ELSE add_order(c.bids, c.asks, order)
  IN IF new_quantity = 0 THEN c
     ELSE [bids |-> m.bids, asks |-> m.asks, result |-> order]

\* modify_order without the redirect of quantity 0 to cancel_order
modify_order_no_redirect(b, a, id, new_quantity) ==
  LET bi == position(b, id, 1)
      ai == position(a, id, 1)
  IN IF bi # 0
     THEN [bids |-> [b EXCEPT ![bi] = modified(b[bi], new_quantity)], asks |-> a,
           result |-> modified(b[bi], new_quantity)]
     ELSE IF ai # 0
     THEN [bids |-> b, asks |-> [a EXCEPT ![ai] = modified(a[ai], new_quantity)],
           result |-> modified(a[ai], new_quantity)]
     ELSE [bids |-> b, asks |-> a, result |-> None]

\* OrderBook::modify_order: the book and Option<Order>
modify_order(b, a, id, new_quantity) ==
  LET bi == position(b, id, 1)
      ai == position(a, id, 1)
  IN IF new_quantity = 0 THEN cancel_order(b, a, id)
     ELSE IF bi # 0
     THEN [bids |-> [b EXCEPT ![bi] = modified(b[bi], new_quantity)], asks |-> a,
           result |-> modified(b[bi], new_quantity)]
     ELSE IF ai # 0
     THEN [bids |-> b, asks |-> [a EXCEPT ![ai] = modified(a[ai], new_quantity)],
           result |-> modified(a[ai], new_quantity)]
     ELSE [bids |-> b, asks |-> a, result |-> None]

\* ------------------------------------------------------- database closures
\* the row INSERT writes (lines 407-418): original and remaining quantity are
\* both the submitted quantity, the status is the one Order::new set
insert_row(order) ==
  [id |-> order.id, side |-> order.side, price |-> order.price,
   original_quantity |-> order.quantity, remaining_quantity |-> order.quantity,
   status |-> order.status, timestamp |-> ToString(order.timestamp)]

\* UPDATE orders SET remaining_quantity = ?, status = ? WHERE id = ?
\* (no row with that id: nothing changes, and it is no error)
update_row(table, id, remaining_quantity, status) ==
  IF id \in DOMAIN table
  THEN [table EXCEPT ![id].remaining_quantity = remaining_quantity,
                     ![id].status = status]
  ELSE table

\* the closure of create_order_handler (lines 404-419) and the answer the
\* handler gives once it has run (line 431): the clone taken before add_order
insert_task(order_for_db, order_to_return) ==
  [kind |-> "insert", order |-> order_for_db,
   reply |-> [op |-> "create", id |-> order_to_return.id, code |-> 201,
              body |-> order_to_return]]

\* the closure of modify_order_handler (lines 453-465) and its answer (line 477)
modify_task(order_for_db) ==
  [kind |-> "modify", id |-> order_for_db.id, quantity |-> order_for_db.quantity,
   status |-> order_for_db.status,
   reply |-> [op |-> "modify", id |-> order_for_db.id, code |-> 200,
              body |-> order_for_db]]

\* the closure of cancel_order_handler (lines 498-509) and its answer (line 521)
cancel_task(order_for_db) ==
  [kind |-> "cancel", id |-> order_for_db.id, status |-> order_for_db.status,
   reply |-> [op |-> "cancel", id |-> order_for_db.id, code |-> 200,
              body |-> order_for_db]]

\* the table after closure t has run
db_after(table, t) ==
  CASE t.kind = "insert" ->
         IF t.order.id \in DOMAIN table THEN table
         ELSE table @@ (t.order.id :> insert_row(t.order))
    [] t.kind = "match" ->
         update_row(update_row(table, t.bid_id, t.bid_remaining_qty, t.bid_status),
                    t.ask_id, t.ask_remaining_qty, t.ask_status)
    [] t.kind = "modify" -> update_row(table, t.id, t.quantity, t.status)
    [] t.kind = "cancel" -> update_row(table, t.id, 0, t.status)

\* INSERT of an id that is already a primary key fails; the handler maps the
\* error to 500 (lines 425-428)
db_error(table, t) == t.kind = "insert" /\ t.order.id \in DOMAIN table

\* ts_str.parse::<u128>() of the text column timestamp (lines 304-311)
parse_timestamp(ts_str) == CHOOSE n \in 0..(MaxOrders + 1) : ToString(n) = ts_str

\* the Order that load_open_orders builds from one row (lines 299-313):
\* quantity is the row's remaining_quantity
order_of_row(row) ==
  [id |-> row.id, side |-> row.side, price |-> row.price,
   quantity |-> row.remaining_quantity,
   timestamp |-> parse_timestamp(row.timestamp), status |-> row.status]

RECURSIVE rows_from(_, _)
\* the rows with status Open or PartiallyFilled, from id on, as the SELECT
\* without ORDER BY scans them: by rowid, which is the INTEGER PRIMARY KEY id
rows_from(table, id) ==
  IF id > MaxOrders THEN <<>>
  ELSE (IF id \in DOMAIN table /\ table[id].status \in {Open, PartiallyFilled}
        THEN <<order_of_row(table[id])>> ELSE <<>>) \o rows_from(table, id + 1)

\* load_open_orders (lines 276-322)
load_open_orders(table) == rows_from(table, 1)

RECURSIVE initial_book(_, _, _, _)
\* main, lines 343-350: push_back of every loaded order on its side and the
\* greatest loaded id
initial_book(open_orders, b, a, max_id) ==
  IF open_orders = <<>> THEN [bids |-> b, asks |-> a, max_id |-> max_id]
  ELSE LET order == Head(open_orders)
           m == IF order.id > max_id THEN order.id ELSE max_id
       IN IF order.side = "Buy"
          THEN initial_book(Tail(open_orders), push_back(b, order), a, m)
          ELSE initial_book(Tail(open_orders), b, push_back(a, order), m)

\* what the handler that awaits closure t answers when t runs on the table
\* (lines 420-431, 464-477, 508-521): 500 for a failed statement, else the
\* reply built from the in-memory result
handler_answer(table, t) == IF db_error(table, t) THEN [code |-> 500] ELSE t.reply

RECURSIVE spawn_all(_, _)
\* the bag of pending closures with every closure of a sequence added
spawn_all(bag, ts) ==
  IF ts = <<>> THEN bag
  ELSE spawn_all(bag (+) SetToBag({Head(ts)}), Tail(ts))

\* ---------------------------------------------------------------- state
Init ==
  /\ bids = <<>>
  /\ asks = <<>>
  /\ next_order_id = 1
  /\ now = 1
  /\ inflight = {}
  /\ tasks = EmptyBag
  /\ db = <<>>
  /\ original = <<>>
  /\ requests = 0
  /\ restarts = 0
  /\ holder = NoHolder

\* --------------------------------------------------------------- handlers
\* create_order_handler, lines 385-394: fetch_add on the counter, Order::new
create_order_begin(side, price, quantity) ==
  /\ next_order_id <= MaxOrders
  /\ now <= MaxOrders
  /\ Cardinality(inflight) < MaxInflight
  /\ LET order_id == next_order_id
         new_order_obj == Order_new(order_id, side, price, quantity, now)
     IN /\ next_order_id' = order_id + 1
        /\ now' = now + 1
        /\ inflight' = inflight \cup {new_order_obj}
        /\ original' = original @@ (order_id :> quantity)
  /\ UNCHANGED <<bids, asks, tasks, db, requests, restarts, holder>>

\* create_order_handler, lines 396-419: add_order under the book lock, which
\* spawns one closure per trade, then the INSERT closure
create_order_locked(order) ==
  /\ order \in inflight
  /\ BagCardinality(tasks) < MaxTasks
  /\ LET r == add_order(bids, asks, order)
     IN /\ bids' = r.bids
        /\ asks' = r.asks
        /\ tasks' = spawn_all(tasks, Append(r.spawned, insert_task(order, order)))
  /\ inflight' = inflight \ {order}
  /\ UNCHANGED <<next_order_id, now, db, original, requests, restarts, holder>>

\* modify_order_handler: modify_order under the book lock; None answers 404,
\* Some spawns the UPDATE closure
modify_order_handler(order_id, quantity) ==
  /\ BagCardinality(tasks) < MaxTasks
  /\ requests < MaxRequests
  /\ LET r == modify_order(bids, asks, order_id, quantity)
     IN /\ bids' = r.bids
        /\ asks' = r.asks
        /\ tasks' = IF r.result = None THEN tasks
                     ELSE tasks (+) SetToBag({modify_task(r.result)})
        /\ requests' = IF r.result = None THEN requests ELSE requests + 1
  /\ UNCHANGED <<next_order_id, now, inflight, db, original, restarts, holder>>

\* cancel_order_handler: cancel_order under the book lock; None answers 404,
\* Some spawns the UPDATE closure
cancel_order_handler(order_id) ==
  /\ BagCardinality(tasks) < MaxTasks
  /\ requests < MaxRequests
  /\ LET r == cancel_order(bids, asks, order_id)
     IN /\ bids' = r.bids
        /\ asks' = r.asks
        /\ tasks' = IF r.result = None THEN tasks
                     ELSE tasks (+) SetToBag({cancel_task(r.result)})
        /\ requests' = IF r.result = None THEN requests ELSE requests + 1
  /\ UNCHANGED <<next_order_id, now, inflight, db, original, restarts, holder>>

\* one pending closure runs under the connection lock; the handler awaiting
\* it, if any, answers
run_task(t) ==
  /\ BagIn(t, tasks)
  /\ tasks' = tasks (-) SetToBag({t})
  /\ db' = db_after(db, t)
  /\ UNCHANGED <<bids, asks, next_order_id, now, inflight,
                 original, requests, restarts, holder>>

\* the process is stopped when no request is in progress and started again:
\* main, lines 339-355, builds the book and the id counter from the table
restart ==
  /\ restarts < MaxRestarts
  /\ inflight = {}
  /\ tasks = EmptyBag
  /\ LET book == initial_book(load_open_orders(db), <<>>, <<>>, 0)
     IN /\ bids' = book.bids
        /\ asks' = book.asks
        /\ next_order_id' = book.max_id + 1
  /\ restarts' = restarts + 1
  /\ UNCHANGED <<now, inflight, tasks, db, original, requests, holder>>

Next ==
  \/ \E side \in Sides, price \in Prices, quantity \in Quantities :
       create_order_begin(side, price, quantity)
  \/ \E order \in inflight : create_order_locked(order)
  \/ \E order_id \in OrderIds, quantity \in Quantities :
       modify_order_handler(order_id, quantity)
  \/ \E order_id \in OrderIds : cancel_order_handler(order_id)
  \/ \E t \in BagToSet(tasks) : run_task(t)

Spec == Init /\ [][Next]_vars

\* the same requests, with the process stopped and started again
NextRestart ==
  \/ \E side \in Sides, price \in Prices, quantity \in Quantities :
       create_order_begin(side, price, quantity)
  \/ \E order \in inflight : create_order_locked(order)
  \/ \E order_id \in OrderIds, quantity \in Quantities :
       modify_order_handler(order_id, quantity)
  \/ \E order_id \in OrderIds : cancel_order_handler(order_id)
  \/ \E t \in BagToSet(tasks) : run_task(t)
  \/ restart

SpecRestart == Init /\ [][NextRestart]_vars

\* the indexes as add_order has them when it calls try_match
Pushed(order) ==
  [bids |-> IF order.side = "Buy" THEN push_back(bids, order) ELSE bids,
   asks |-> IF order.side = "Buy" THEN asks ELSE push_back(asks, order)]

\* ------------------------------------------- the book lock, step by step
\* state.order_book.lock() returns when no other guard is alive (lines 397,
\* 442, 487)
book_lock_ignored(h) == TRUE
book_lock_free(h) == h.pc = "free"

\* create_order_handler acquires the book lock (lines 396-398)
lock_book(order) ==
  /\ order \in inflight
  /\ book_lock_free(holder)
  /\ BagCardinality(tasks) < MaxTasks
  /\ holder' = [pc |-> "push", order |-> order,
                seen |-> [bids |-> bids, asks |-> asks], iterations |-> 0]
  /\ inflight' = inflight \ {order}
  /\ UNCHANGED <<bids, asks, next_order_id, now, tasks, db, original, requests,
                 restarts>>

\* add_order up to its call of try_match (lines 104-112)
add_order_push ==
  /\ holder.pc = "push"
  /\ bids' = Pushed(holder.order).bids
  /\ asks' = Pushed(holder.order).asks
  /\ holder' = [holder EXCEPT !.pc = "match"]
  /\ UNCHANGED <<next_order_id, now, inflight, tasks, db, original, requests,
                 restarts>>

\* one iteration of the loop of try_match (lines 117-178): the heads trade
\* and the closure of the trade is spawned
try_match_iteration ==
  /\ holder.pc = "match"
  /\ can_match(bids, asks)
  /\ LET m == match_heads(bids, asks)
     IN /\ bids' = m.bids
        /\ asks' = m.asks
        /\ tasks' = tasks (+) SetToBag({m.spawned})
  /\ holder' = [holder EXCEPT !.iterations = @ + 1]
  /\ UNCHANGED <<next_order_id, now, inflight, db, original, requests, restarts>>

\* the loop ends, the guard is dropped and the INSERT closure is spawned
\* (lines 118-128, 400-404)
unlock_book ==
  /\ holder.pc = "match"
  /\ ~can_match(bids, asks)
  /\ tasks' = tasks (+) SetToBag({insert_task(holder.order, holder.order)})
  /\ holder' = NoHolder
  /\ UNCHANGED <<bids, asks, next_order_id, now, inflight, db, original,
                 requests, restarts>>

\* modify_order_handler and cancel_order_handler take the same lock for
\* their call (lines 441-445, 486-490)
modify_order_locked(order_id, quantity) ==
  /\ book_lock_free(holder)
  /\ modify_order_handler(order_id, quantity)

cancel_order_locked(order_id) ==
  /\ book_lock_free(holder)
  /\ cancel_order_handler(order_id)

NextLock ==
  \/ \E side \in Sides, price \in Prices, quantity \in Quantities :
       create_order_begin(side, price, quantity)
  \/ \E order \in inflight : lock_book(order)
  \/ add_order_push
  \/ try_match_iteration
  \/ unlock_book
  \/ \E order_id \in OrderIds, quantity \in Quantities :
       modify_order_locked(order_id, quantity)
  \/ \E order_id \in OrderIds : cancel_order_locked(order_id)
  \/ \E t \in BagToSet(tasks) : run_task(t)

SpecLock == Init /\ [][NextLock]_vars

\* the thread inside the critical section is not suspended for ever: the code
\* between lock() and the drop of the guard has no await and no blocking call
\* (lines 396-401, 103-179)
SpecLockFair ==
  /\ SpecLock
  /\ WF_vars(add_order_push)
  /\ WF_vars(try_match_iteration)
  /\ WF_vars(unlock_book)

\* ======================================================================
\* Properties.  Every state of Spec is a state in which the book lock is
\* free: a handler's critical section is a single step.
\* ======================================================================
Book == bids \o asks
BookIds == Ids(bids) \cup Ids(asks)
Resting(id) == Resting_in(Book, id)
IdSeq(q) == [i \in 1..Len(q) |-> q[i].id]
Copies(t, bag) == IF BagIn(t, bag) THEN CopiesIn(t, bag) ELSE 0
\* the closures a step has added to the pending ones
Spawned == {t \in BagToSet(tasks') : Copies(t, tasks') > Copies(t, tasks)}

\* no order has been submitted with a quantity of 0 (the submissions the
\* specification wants rejected; they are accepted, see C6)
OnlyValidSubmitted == \A id \in DOMAIN original : original[id] > 0

\* C1: after any submit, modify or cancel has completed, whenever both
\* indexes are non-empty the head of bids is priced strictly below the head
\* of asks.  (Stated for the runs in which every submission was valid.)
C1_NoResidualCrossing ==
  OnlyValidSubmitted
  => ((bids # <<>> /\ asks # <<>>) => Head(bids).price < Head(asks).price)

\* C2: bids are arranged by price descending and asks by price ascending, so
\* each head is a best-priced resting order of its side.  (Stated for the
\* runs in which every submission was valid.)
C2_PriceOrdered ==
  OnlyValidSubmitted =>
  /\ \A i \in 1..Len(bids), j \in 1..Len(bids) :
       i < j => bids[i].price >= bids[j].price
  /\ \A i \in 1..Len(asks), j \in 1..Len(asks) :
       i < j => asks[i].price <= asks[j].price

\* two equal-priced orders that rest in q before and after a step keep their
\* relative position
KeepsOrder(q, q2) ==
  \A i \in 1..Len(q), j \in 1..Len(q) :
    (/\ i < j
     /\ q[i].price = q[j].price
     /\ q[i].id \in Ids(q2)
     /\ q[j].id \in Ids(q2))
    => position(q2, q[i].id, 1) < position(q2, q[j].id, 1)

\* an order that enters q in a step stands behind every equal-priced order
\* that was there already
EntersBehind(q, q2) ==
  \A i \in 1..Len(q2), j \in 1..Len(q2) :
    (/\ q2[j].id \notin Ids(q)
     /\ q2[i].id \in Ids(q)
     /\ q2[i].price = q2[j].price)
    => i < j

\* when matching touches an order, every equal-priced order that stood before
\* it has been traded out of the index
TradesFirst(q, q2) ==
  \A i \in 1..Len(q), j \in 1..Len(q) :
    (/\ i < j
     /\ q[i].price = q[j].price
     /\ \A k \in 1..Len(q2) : q2[k] # q[j])
    => q[i].id \notin Ids(q2)

\* C3: within one index, two resting orders of equal price stay in insertion
\* order: the earlier one is nearer the head and trades first, and no submit,
\* match, modify or cancel swaps them.
C3_FifoStable ==
  [][/\ KeepsOrder(bids, bids') /\ KeepsOrder(asks, asks')
     /\ EntersBehind(bids, bids') /\ EntersBehind(asks, asks')
     /\ (\E order \in inflight : create_order_locked(order))
          => TradesFirst(bids, bids') /\ TradesFirst(asks, asks')]_vars

\* a cancel or modify has found its order, the order at the head of bids has
\* traded, and an equal-priced bid rests behind it
C3_Witness ==
  /\ requests >= 1
  /\ Len(bids) >= 2
  /\ bids[1].price = bids[2].price
  /\ bids[1].status = PartiallyFilled
  /\ bids[1].quantity < original[bids[1].id]

\* C4: every order in an index has 0 < remaining quantity <= the quantity it
\* was submitted with.  (Stated for the runs in which every submission was
\* valid.)
C4_QuantityBounds ==
  OnlyValidSubmitted
  => \A i \in 1..Len(Book) :
       0 < Book[i].quantity /\ Book[i].quantity <= original[Book[i].id]

\* the ids whose closure or row carries a terminal status
TerminalIds ==
  {t.id : t \in {u \in BagToSet(tasks) : u.kind \in {"modify", "cancel"}
                                        /\ u.status \in {Filled, Cancelled}}}
  \cup {t.bid_id : t \in {u \in BagToSet(tasks) : u.kind = "match"
                                                 /\ u.bid_status = Filled}}
  \cup {t.ask_id : t \in {u \in BagToSet(tasks) : u.kind = "match"
                                                 /\ u.ask_status = Filled}}
  \cup {id \in DOMAIN db : db[id].status \in {Filled, Cancelled}}

\* C5: every order in an index is Open or PartiallyFilled, and an order that
\* an operation has made Filled or Cancelled is in no index.
C5_RestingStatus ==
  /\ \A i \in 1..Len(Book) : Book[i].status \in {Open, PartiallyFilled}
  /\ TerminalIds \cap BookIds = {}

\* one order has been filled and one cancelled, and a partially filled order
\* still rests
C5_Witness ==
  /\ \E id \in TerminalIds : id \in DOMAIN db /\ db[id].status = Filled
  /\ \E id \in TerminalIds : id \in DOMAIN db /\ db[id].status = Cancelled
  /\ \E i \in 1..Len(Book) : Book[i].status = PartiallyFilled

\* C6: a submission with price <= 0 or quantity <= 0 is rejected before any
\* mutation: the indexes, the pending writes and the table stay as they were.
C6_InvalidSubmitChangesNothing ==
  [][\A order \in inflight :
       (create_order_locked(order) /\ (order.price <= 0 \/ order.quantity <= 0))
       => UNCHANGED <<bids, asks, tasks, db>>]_vars

\* the submitted order as the matching engine left it: its entry in the book,
\* or Filled with nothing remaining once the engine has popped it
snapshot_after(b, a, order) ==
  IF position(b, order.id, 1) # 0 THEN b[position(b, order.id, 1)]
  ELSE IF position(a, order.id, 1) # 0 THEN a[position(a, order.id, 1)]
  ELSE [order EXCEPT !.quantity = 0, !.status = Filled]

\* C7: the order submit returns is the submitted order's state after the
\* matching engine has run.  (Stated for the runs in which every submission
\* was valid.)
C7_ReturnsStateAfterMatching ==
  [][\A order \in inflight :
       (OnlyValidSubmitted /\ create_order_locked(order))
       => \A t \in Spawned :
            t.kind = "insert"
            => t.reply.body = snapshot_after(bids', asks', order)]_vars

\* C8: modify(id, q) with q > 0 on a resting order sets its remaining
\* quantity to q, its status to PartiallyFilled if q is below the submitted
\* quantity and to Open otherwise, and returns that snapshot.  (Stated for
\* the runs in which every submission was valid.)
C8_ModifySetsQuantityAndStatus ==
  [][\A id \in BookIds, q \in Quantities :
       (OnlyValidSubmitted /\ q > 0 /\ modify_order_handler(id, q))
       => LET after == snapshot_after(bids', asks', Resting(id))
          IN /\ after.quantity = q
             /\ after.status = IF q < original[id] THEN PartiallyFilled ELSE Open
             /\ \A t \in Spawned : t.reply.body = after]_vars

\* C9: modify(id, q) with q > 0 runs no matching and re-ranks nothing: no
\* trade, the same ids in the same sequence in both indexes, every other
\* order unchanged.
C9_ModifyFrame ==
  [][\A id \in OrderIds, q \in Quantities :
       (q > 0 /\ modify_order_handler(id, q))
       => /\ IdSeq(bids') = IdSeq(bids)
          /\ IdSeq(asks') = IdSeq(asks)
          /\ \A i \in 1..Len(bids) : bids[i].id # id => bids'[i] = bids[i]
          /\ \A i \in 1..Len(asks) : asks[i].id # id => asks'[i] = asks[i]
          /\ \A t \in Spawned : t.kind = "modify" /\ t.id = id
          /\ db' = db]_vars

\* a modify with q > 0 has found its order while a better-priced bid rests
\* behind the head of bids
C9_Witness ==
  /\ \E t \in BagToSet(tasks) : t.kind = "modify" /\ t.status # Cancelled
  /\ Len(bids) >= 2
  /\ bids[1].price < bids[2].price

\* q without the order whose id is id
Without(q, id) == SelectSeq(q, LAMBDA o : o.id # id)

\* C10: cancel(id) on a resting order removes exactly that order, returns its
\* snapshot with status Cancelled, and leaves every other order of both
\* indexes unchanged and in the same relative order.
C10_CancelFrame ==
  [][\A id \in BookIds :
       cancel_order_handler(id)
       => /\ bids' = Without(bids, id)
          /\ asks' = Without(asks, id)
          /\ Len(bids') + Len(asks') = Len(bids) + Len(asks) - 1
          /\ Cardinality(Spawned) = 1
          /\ \A t \in Spawned :
               /\ t.kind = "cancel"
               /\ t.reply.body = [Resting(id) EXCEPT !.status = Cancelled]]_vars

\* a cancel has found its order, which was not the last of its index, and two
\* orders are left in that index
C10_Witness ==
  /\ \E t \in BagToSet(tasks) :
       /\ t.kind = "cancel"
       /\ \E i \in 1..Len(bids) : bids[i].id > t.id
  /\ Len(bids) >= 2

\* C11: modify or cancel of an id that is in neither index (never issued,
\* already Filled, already Cancelled) returns None and leaves both indexes
\* as they are; cancelling an id twice returns the order, then None.
C11_NotFoundChangesNothing ==
  /\ \A id \in (OrderIds \cup TerminalIds) \ BookIds :
       /\ cancel_order(bids, asks, id) = [bids |-> bids, asks |-> asks, result |-> None]
       /\ \A q \in Quantities :
            modify_order(bids, asks, id, q)
              = [bids |-> bids, asks |-> asks, result |-> None]
  /\ \A id \in BookIds :
       LET first == cancel_order(bids, asks, id)
           second == cancel_order(first.bids, first.asks, id)
       IN /\ first.result # None
          /\ first.result.id = id
          /\ second = [bids |-> first.bids, asks |-> first.asks, result |-> None]

\* one order has been cancelled, another filled, and a third rests
C11_Witness ==
  /\ \E id \in TerminalIds : id \in DOMAIN db /\ db[id].status = Cancelled
  /\ \E id \in TerminalIds : id \in DOMAIN db /\ db[id].status = Filled
  /\ Book # <<>>

\* C12: modify(id, 0) is cancel(id): the same returned value (the Cancelled
\* snapshot, or None) and the same resulting book, from any book.
C12_ModifyZeroIsCancel ==
  \A id \in OrderIds :
    LET m == modify_order(bids, asks, id, 0)
        c == cancel_order(bids, asks, id)
    IN /\ m.bids = c.bids
       /\ m.asks = c.asks
       /\ m.result = c.result
       /\ c.result # None
            => /\ modify_task(m.result).reply.body = cancel_task(c.result).reply.body
               /\ modify_task(m.result).reply.code = cancel_task(c.result).reply.code

\* a modify to quantity 0 has found its order, partially filled, while other
\* orders rest
C12_Witness ==
  /\ \E t \in BagToSet(tasks) :
       t.kind = "modify" /\ t.status = Cancelled /\ t.quantity < original[t.id]
  /\ Book # <<>>

\* C13: every trade of a submitted order executes at the price of the order
\* it meets in the book (the maker): the bid's price for an incoming sell, the
\* ask's price for an incoming buy.  (Stated for the runs in which every
\* submission was valid.)
C13_TradesAtMakerPrice ==
  OnlyValidSubmitted =>
  \A order \in inflight :
    LET p == Pushed(order)
        log == match_log(p.bids, p.asks, <<>>)
    IN \A k \in 1..Len(log) :
         /\ log[k].ask_id = order.id
              => log[k].price = Resting_in(p.bids, log[k].bid_id).price
         /\ log[k].bid_id = order.id
              => log[k].price = Resting_in(p.asks, log[k].ask_id).price

\* no creation is between its id and the book, and no closure is pending
Quiescent == inflight = {} /\ tasks = EmptyBag

\* C16: once every operation and every pending write has completed, each
\* order's row carries its most recent in-memory remaining quantity and
\* status: those of the resting order, a terminal status if it was removed.
\* (Stated for the runs in which every submission was valid.)
C16_DurableConverges ==
  (OnlyValidSubmitted /\ Quiescent) =>
  \A id \in DOMAIN original :
    /\ id \in DOMAIN db
    /\ IF id \in BookIds
       THEN /\ db[id].remaining_quantity = Resting(id).quantity
            /\ db[id].status = Resting(id).status
       ELSE db[id].status \in {Filled, Cancelled}

\* what the claim says of one iteration on crossing indexes b and a, m being
\* the iteration's outcome
IterationOk(b, a, m) ==
  LET bid == Head(b)
      ask == Head(a)
      tradeQty == IF bid.quantity < ask.quantity THEN bid.quantity ELSE ask.quantity
      bid_left == bid.quantity - tradeQty
      ask_left == ask.quantity - tradeQty
  IN /\ m.spawned.bid_id = bid.id /\ m.spawned.ask_id = ask.id
     /\ m.spawned.bid_remaining_qty = bid_left
     /\ m.spawned.ask_remaining_qty = ask_left
     /\ m.spawned.bid_status = (IF bid_left = 0 THEN Filled ELSE PartiallyFilled)
     /\ m.spawned.ask_status = (IF ask_left = 0 THEN Filled ELSE PartiallyFilled)
     /\ IF bid_left = 0 THEN m.bids = Tail(b)
        ELSE /\ Tail(m.bids) = Tail(b)
             /\ Head(m.bids) = [bid EXCEPT !.quantity = bid_left,
                                           !.status = PartiallyFilled]
     /\ IF ask_left = 0 THEN m.asks = Tail(a)
        ELSE /\ Tail(m.asks) = Tail(a)
             /\ Head(m.asks) = [ask EXCEPT !.quantity = ask_left,
                                           !.status = PartiallyFilled]

RECURSIVE IterationsOk(_, _)
\* every iteration of the loop run on b and a is as the claim says
IterationsOk(b, a) ==
  IF b # <<>> /\ a # <<>> /\ Head(b).price >= Head(a).price
  THEN LET m == match_heads(b, a)
       IN IterationOk(b, a, m) /\ IterationsOk(m.bids, m.asks)
  ELSE TRUE

\* C19: each iteration of the matching loop trades min(head bid remaining,
\* head ask remaining), takes exactly that from both, sets Filled at 0 and
\* PartiallyFilled otherwise, pops every order that reached 0 and leaves the
\* other at the head; the loop goes on until an index is empty or the heads
\* no longer cross.
C19_MatchingIteration ==
  \A order \in inflight :
    LET p == Pushed(order)
        r == add_order(bids, asks, order)
    IN /\ IterationsOk(p.bids, p.asks)
       /\ Len(r.spawned) = Len(match_log(p.bids, p.asks, <<>>))
       /\ r.bids = <<>> \/ r.asks = <<>> \/ Head(r.bids).price < Head(r.asks).price

\* a submitted buy has swept two asks: the first filled and popped, the
\* second left partially filled at the head
C19_Witness ==
  \E t1 \in BagToSet(tasks), t2 \in BagToSet(tasks) :
    /\ t1.kind = "match" /\ t2.kind = "match"
    /\ t1.bid_id = t2.bid_id
    /\ t1.ask_id # t2.ask_id
    /\ t1.ask_status = Filled /\ t1.bid_status = PartiallyFilled
    /\ t2.bid_status = Filled /\ t2.ask_status = PartiallyFilled
    /\ asks # <<>> /\ Head(asks).id = t2.ask_id

\* every durable record is of an order submitted with a positive quantity
ValidRows == \A id \in DOMAIN db : db[id].original_quantity > 0

\* C14: an id is issued once: every issued id is one more than the last,
\* greater than every id issued before, and, also after a restart, not the
\* id of any durable record, whatever that record's status.  (Stated for the
\* runs in which every recorded submission was valid.)
C14_IdsNeverReissued ==
  [][(now' # now /\ ValidRows) =>
       /\ next_order_id' = next_order_id + 1
       /\ \A id \in DOMAIN original : id < next_order_id
       /\ next_order_id \notin DOMAIN db]_vars

\* C15: the answer to a submit, modify or cancel is the in-memory result
\* whatever becomes of its durable write: a write that fails does not turn
\* the success into a failure.  (Stated for valid submissions.)
C15_AnswerIndependentOfWrite ==
  [][\A t \in BagToSet(tasks) :
       /\ Copies(t, tasks') < Copies(t, tasks)
       /\ t.kind # "match"
       /\ ValidRows
       /\ t.kind = "insert" => t.order.quantity > 0
       => handler_answer(db, t) = t.reply]_vars

\* q holds best price first (dir = 1: highest, dir = -1: lowest) and, among
\* equal prices, earliest timestamp first
PriceTimeOrdered(q, dir) ==
  \A i \in 1..Len(q), j \in 1..Len(q) :
    i < j => \/ dir * q[i].price > dir * q[j].price
             \/ q[i].price = q[j].price /\ q[i].timestamp <= q[j].timestamp

\* C17: the recovery load puts into the book exactly the durable records
\* with status Open or PartiallyFilled, each once, on the side and with the
\* remaining quantity of its record, and the indexes it builds are in
\* price-time order.  (Stated for the runs in which every recorded submission
\* was valid.)
C17_RecoveryRebuildsBook ==
  [][(restarts' # restarts /\ ValidRows) =>
       /\ {o.id : o \in {bids'[i] : i \in 1..Len(bids')}
                        \cup {asks'[i] : i \in 1..Len(asks')}}
            = {id \in DOMAIN db : db[id].status \in {Open, PartiallyFilled}}
       /\ Len(bids') + Len(asks')
            = Cardinality({id \in DOMAIN db : db[id].status \in {Open, PartiallyFilled}})
       /\ \A i \in 1..Len(bids') :
            /\ db[bids'[i].id].side = "Buy"
            /\ bids'[i].quantity = db[bids'[i].id].remaining_quantity
       /\ \A i \in 1..Len(asks') :
            /\ db[asks'[i].id].side = "Sell"
            /\ asks'[i].quantity = db[asks'[i].id].remaining_quantity
       /\ PriceTimeOrdered(bids', 1)
       /\ PriceTimeOrdered(asks', -1)]_vars

\* C18: an order that has left the book (Filled or Cancelled) is in no index
\* again: an id enters an index only with its own submission, and a restart
\* brings back no order that was not resting when the process stopped.
\* (The restart is stated for the runs in which every recorded submission was
\* valid.)
C18_RemovedStaysRemoved ==
  [][/\ restarts' = restarts
          => Ids(bids') \cup Ids(asks') \subseteq BookIds \cup {o.id : o \in inflight}
     /\ (restarts' # restarts /\ ValidRows)
          => Ids(bids') \cup Ids(asks') \subseteq BookIds]_vars

\* C20: matching is atomic with respect to the other operations: while a
\* submission is inside add_order no other operation changes the indexes,
\* so from the moment it holds the lock to the end of its sweep the book goes
\* where add_order takes the book it found.
C20_MatchingAtomic ==
  holder.pc # "free" =>
    LET atomic == add_order(holder.seen.bids, holder.seen.asks, holder.order)
        rest == try_match(bids, asks, <<>>)
    IN /\ holder.pc = "push" => bids = holder.seen.bids /\ asks = holder.seen.asks
       /\ holder.pc = "match" => rest.bids = atomic.bids /\ rest.asks = atomic.asks

\* a submission is in the middle of its sweep, one trade done and one to
\* come, after a modify or cancel has changed the book
C20_Witness ==
  /\ holder.pc = "match"
  /\ can_match(bids, asks)
  /\ <<bids, asks>> # <<Pushed(holder.order).bids, Pushed(holder.order).asks>>
  /\ requests > 0

\* C21: no durable write is issued while the book lock is held: a step that
\* leaves a submission inside its critical section spawns no closure, the
\* UPDATEs of the trades of its matching sweep included.  (Stated for the
\* runs in which every submission was valid.)
C21_NoWriteIssuedUnderLock ==
  [][(OnlyValidSubmitted /\ holder.pc # "free" /\ holder'.pc # "free")
       => Spawned = {}]_vars

\* the ids whose rows closure t writes, and the remaining quantity it writes
written_ids(t) ==
  CASE t.kind = "insert" -> {t.order.id}
    [] t.kind = "match" -> {t.bid_id, t.ask_id}
    [] OTHER -> {t.id}

written_quantity(t, id) ==
  CASE t.kind = "insert" -> t.order.quantity
    [] t.kind = "match" ->
         IF id = t.bid_id THEN t.bid_remaining_qty ELSE t.ask_remaining_qty
    [] t.kind = "modify" -> t.quantity
    [] OTHER -> 0

\* closure t runs in this step
Runs(t) == Copies(t, tasks') < Copies(t, tasks)

\* C22: for each id the writes reach the table in the order of the
\* in-memory mutations: an UPDATE of an order runs only when its INSERT has
\* been applied, and of two trades of one sweep on the same order the earlier
\* (which leaves the order the greater remaining quantity) is written first.
\* (Stated for the runs in which every submission was valid.)
C22_WritesInMutationOrder ==
  [][OnlyValidSubmitted =>
       \A t \in BagToSet(tasks) :
         Runs(t) =>
           \A id \in written_ids(t) :
             /\ t.kind # "insert" => id \in DOMAIN db
             /\ \A u \in BagToSet(tasks) \ {t} :
                  (t.kind = "match" /\ u.kind = "match" /\ id \in written_ids(u))
                    => written_quantity(u, id) < written_quantity(t, id)]_vars

\* the row of id in table carries this remaining quantity and status
Reflects(table, id, remaining_quantity, status) ==
  /\ id \in DOMAIN table
  /\ table[id].remaining_quantity = remaining_quantity
  /\ table[id].status = status

\* C24: the two updates of a trade take effect together: once the trade's
\* closure has run, the table reflects the trade on the bid exactly if it
\* reflects it on the ask, also when one of the two is the order just
\* submitted.  (Stated for the runs in which every submission was valid.)
C24_TradeSidesTogether ==
  [][OnlyValidSubmitted =>
       \A t \in BagToSet(tasks) :
         (Runs(t) /\ t.kind = "match") =>
           (Reflects(db', t.bid_id, t.bid_remaining_qty, t.bid_status)
              <=> Reflects(db', t.ask_id, t.ask_remaining_qty, t.ask_status))]_vars

\* of two equal-priced orders of q the one nearer the head has the smaller
\* id and no later timestamp
ArrivalAgrees(q) ==
  \A i \in 1..Len(q), j \in 1..Len(q) :
    (i < j /\ q[i].price = q[j].price)
      => q[i].id < q[j].id /\ q[i].timestamp <= q[j].timestamp

\* C25: under concurrent submits the order in which orders enter an index
\* agrees with their ids and creation timestamps: of two orders resting in
\* one index at one price, the one nearer the head has the smaller id and
\* the earlier timestamp.  (Stated for the runs in which every submission
\* was valid.)
C25_ArrivalAgreesWithIds ==
  OnlyValidSubmitted => (ArrivalAgrees(bids) /\ ArrivalAgrees(asks))

\* both indexes are non-empty and the head prices cross
HeadsCross == bids # <<>> /\ asks # <<>> /\ Head(bids).price >= Head(asks).price

\* C23: the matching loop of a submit terminates: every iteration finds the
\* heads crossing and takes at least one order out of the book, so the book
\* shrinks with every iteration and the iterations number at most the resting
\* orders plus one; the loop goes on while the heads cross and ends exactly
\* when an index is empty or the head prices no longer cross.
C23_MatchingLoopTerminates ==
  /\ (holder.pc # "free") ~> (holder.pc = "free")
  /\ [][/\ (holder.pc = "match" /\ holder'.pc = "match"
              /\ holder'.iterations # holder.iterations)
             => /\ HeadsCross
                /\ Len(bids') + Len(asks') < Len(bids) + Len(asks)
                /\ holder'.iterations
                     <= Len(holder.seen.bids) + Len(holder.seen.asks) + 1
        /\ (holder.pc = "match" /\ holder'.pc = "free") => ~HeadsCross
        /\ (holder.pc = "match" /\ ~HeadsCross)
             => /\ holder'.pc \in {"match", "free"}
                /\ <<bids', asks'>> = <<bids, asks>>]_vars

\* a sweep has made two iterations and the loop has ended
C23_Witness ==
  /\ holder.pc = "match"
  /\ holder.iterations = 2
  /\ ~HeadsCross
  /\ bids # <<>>

====
